---- MODULE Spec2Model ----
(***************************************************************************)
(* Session registry of chuk-mcp-game-server: GameSessionManager and        *)
(* GameSession (src/src/chuk_mcp_game_server/session).                     *)
(*                                                                         *)
(* Strings are sequences of chunks.  A chunk is a one-character string,    *)
(* or a word made only of letters, digits and '_' (the plugin type names   *)
(* and the hex part of a generated id).  Time is counted in hours.         *)
(***************************************************************************)
EXTENDS Integers, Sequences, FiniteSets, TLC

VARIABLES sessions, active_session_id, max_sessions, now, result, emitted, calls

vars == <<sessions, active_session_id, max_sessions, now, result, emitted, calls>>

(***************************************************************************)
(* Bounds of the model.                                                    *)
(***************************************************************************)
MaxTime == 2
MaxCapacity == 2
MaxBulk == 2
MaxIdCapacity == 3
MaxElectCapacity == 3

(***************************************************************************)
(* Text helpers.                                                           *)
(***************************************************************************)
None == <<>>

Whitespace == {" "}

UpperWords == {"Tic_Tac_Toe"}

AlnumChunks == {"a", "b", "x", "y", "z", "0", "1", "2", "3", "4", "5", "6", "7", "8", "9",
                "c0", "c1", "tic_tac_toe", "number_guessing", "chess"} \cup UpperWords

\* c.isalnum() or c in '_-', lifted to chunks
IsIdChunk(c) == c \in AlnumChunks \/ c \in {"_", "-"}

RECURSIVE LStrip(_)
LStrip(s) == IF s = <<>> THEN <<>>
             ELSE IF Head(s) \in Whitespace THEN LStrip(Tail(s)) ELSE s

RECURSIVE RStrip(_)
RStrip(s) == IF s = <<>> THEN <<>>
             ELSE IF s[Len(s)] \in Whitespace THEN RStrip(SubSeq(s, 1, Len(s) - 1)) ELSE s

\* str.strip()
Strip(s) == RStrip(LStrip(s))

LowerChunk(c) == IF c = "Tic_Tac_Toe" THEN "tic_tac_toe" ELSE c

\* str.lower()
Lower(s) == [i \in 1..Len(s) |-> LowerChunk(s[i])]

DigitChunk(d) == CASE d = 0 -> "0" [] d = 1 -> "1" [] d = 2 -> "2" [] d = 3 -> "3"
                   [] d = 4 -> "4" [] d = 5 -> "5" [] d = 6 -> "6" [] d = 7 -> "7"
                   [] d = 8 -> "8" [] d = 9 -> "9"

\* str(n) for n >= 0
RECURSIVE Decimal(_)
Decimal(n) == IF n < 10 THEN <<DigitChunk(n)>>
              ELSE Decimal(n \div 10) \o <<DigitChunk(n % 10)>>

\* strftime of the clock: a fixed-width, zero-padded field of digits
TimeStamp(t) == <<DigitChunk((t \div 10) % 10), DigitChunk(t % 10)>>

Range(s) == {s[i] : i \in 1..Len(s)}

(***************************************************************************)
(* Validators of SessionCreationRequest and GameSession.                   *)
(***************************************************************************)
\* a validator that checks the stripped id but hands back the id as given
RequestSessionIdUnstripped(hasId, raw) ==
    IF ~hasId THEN [ok |-> TRUE, given |-> FALSE, id |-> None]
    ELSE IF Strip(raw) = <<>> \/ \E i \in 1..Len(Strip(raw)) : ~IsIdChunk(Strip(raw)[i])
         THEN [ok |-> FALSE, given |-> TRUE, id |-> None]
         ELSE [ok |-> TRUE, given |-> TRUE, id |-> raw]

\* SessionCreationRequest.validate_session_id: ok = FALSE when it raises
RequestSessionId(hasId, raw) ==
    IF ~hasId THEN [ok |-> TRUE, given |-> FALSE, id |-> None]
    ELSE LET v == Strip(raw) IN
         IF v = <<>> THEN [ok |-> FALSE, given |-> TRUE, id |-> None]
         ELSE IF \E i \in 1..Len(v) : ~IsIdChunk(v[i])
              THEN [ok |-> FALSE, given |-> TRUE, id |-> None]
              ELSE [ok |-> TRUE, given |-> TRUE, id |-> v]

\* GameSession.validate_session_id: ok = FALSE when it raises
SessionIdField(v) ==
    IF v = <<>> \/ Strip(v) = <<>> THEN [ok |-> FALSE, id |-> None]
    ELSE LET clean_id == Strip(v) IN
         IF \E i \in 1..Len(clean_id) : ~IsIdChunk(clean_id[i])
         THEN [ok |-> FALSE, id |-> None]
         ELSE [ok |-> TRUE, id |-> clean_id]

\* GameSession.validate_game_type
GameTypeField(v) ==
    IF v = <<>> \/ Strip(v) = <<>> THEN [ok |-> FALSE, game_type |-> None]
    ELSE [ok |-> TRUE, game_type |-> Lower(Strip(v))]

\* the dedup/trim loop shared by GameSession.validate_tags and
\* SessionCreationRequest.validate_tags
RECURSIVE CleanTags(_, _)
CleanTags(v, clean_tags) ==
    IF v = <<>> THEN clean_tags
    ELSE LET clean_tag == Strip(Head(v)) IN
         IF clean_tag # <<>> /\ clean_tag \notin Range(clean_tags)
         THEN CleanTags(Tail(v), Append(clean_tags, clean_tag))
         ELSE CleanTags(Tail(v), clean_tags)

\* a validator that stores the list as given
validate_tagsAsGiven(v) == v

validate_tags(v) == CleanTags(v, <<>>)

(***************************************************************************)
(* The session table: a dict, kept in insertion order.                     *)
(***************************************************************************)
Keys(tbl) == {tbl[i].key : i \in 1..Len(tbl)}

IndexOf(tbl, id) == CHOOSE i \in 1..Len(tbl) : tbl[i].key = id

Lookup(tbl, id) == tbl[IndexOf(tbl, id)]

\* del self.sessions[session_id]
RemoveNothing(tbl, id) == tbl

\* del self.sessions[session_id]
Remove(tbl, id) ==
    LET i == IndexOf(tbl, id) IN
    SubSeq(tbl, 1, i - 1) \o SubSeq(tbl, i + 1, Len(tbl))

\* a touch that stamps the hour before the current one
touchEarlier(s, t) == [s EXCEPT !.last_accessed = t - 1]

\* a touch that leaves last_accessed as it was
touchNothing(s, t) == s

\* GameSession.touch
touch(s, t) == [s EXCEPT !.last_accessed = t]

\* a lookup that does not touch the record
TouchInNothing(tbl, id, t) == tbl

\* session.touch() on the record stored under id
TouchIn(tbl, id, t) == [tbl EXCEPT ![IndexOf(tbl, id)] = touch(@, t)]

(***************************************************************************)
(* Plugin registry and plugins.                                            *)
(***************************************************************************)
RegisteredTypes == {<<"tic_tac_toe">>, <<"number_guessing">>}

\* PluginRegistry.get: TRUE when it returns, FALSE when it raises
PluginKnown(game_type) == game_type \in RegisteredTypes

\* GamePlugin.validate_config on the request's config
ConfigValid(config) == config # "invalid"

\* GamePlugin.create_initial_state: FALSE when it raises
StateCreated(config) == config # "state_raises"

Configs == {"default", "invalid", "state_raises"}

(***************************************************************************)
(* Results and events.                                                     *)
(***************************************************************************)
NoResult == [op |-> "init", success |-> TRUE, error |-> "", error_code |-> "None",
             session_id |-> None, new_active |-> None, previous_active |-> None,
             total_requested |-> 0, successful |-> 0, failed |-> 0,
             items |-> <<>>, listed |-> <<>>, deleted |-> 0, dry_run |-> FALSE,
             request_id |-> None, auto_activate |-> FALSE, ids |-> <<>>,
             criteria |-> None, tags |-> <<>>, filter |-> None,
             status |-> "", stale_sessions |-> 0,
             emit_events |-> FALSE, game_type |-> None, config |-> "",
             sessions_by_status |-> [completed |-> 0, stale |-> 0, idle |-> 0, active |-> 0]]

\* create_success_result / create_error_result: the error is named by the
\* message the manager passes; no error_code is ever passed
Success(op) == [NoResult EXCEPT !.op = op]

Failure(op, error) == [NoResult EXCEPT !.op = op, !.success = FALSE, !.error = error]

\* _emit_event with a handler installed: one sink invocation per event
Event(event_type, session_id) == [event_type |-> event_type, session_id |-> session_id]

(***************************************************************************)
(* Calls in flight.  An operation is a coroutine: it runs without          *)
(* interruption up to "await self.event_handler(event)" in _emit_event,    *)
(* where other calls may run, and from there to its return statement.      *)
(***************************************************************************)
\* at most MaxCalls calls are made in the interleaved specification
MaxCalls == 3

\* what a call has handed to its caller: the result, and the two fields
\* of the result data that are read from the manager after the await
NoReturn == [result |-> NoResult, is_active |-> FALSE, remaining_sessions |-> 0]

\* a call that was not made yet
Idle == [pc |-> "idle", res |-> NoResult, sink |-> "none", returned |-> NoReturn]

NoCalls == [c \in 1..MaxCalls |-> Idle]

\* calls made one after the other, each sink invocation completing at once
Sequential == UNCHANGED calls

\* a sink whose exception reaches the operation that emitted the event
DeliveredPropagating(res, sink, tbl, active) ==
    IF sink = "raises"
    THEN [result |-> Failure(res.op, "internal"), is_active |-> FALSE,
          remaining_sessions |-> 0]
    ELSE [result |-> res,
          is_active |-> res.op = "create" /\ res.success /\ res.session_id = active,
          remaining_sessions |-> IF res.op = "delete" /\ res.success THEN Len(tbl) ELSE 0]

\* what an operation returns once _emit_event is over: _emit_event catches
\* and logs what the sink raises, so the operation goes on to its return
\* statement, which reads the active pointer (create_session) and the table
\* size (delete_session) as they are by then
Delivered(res, sink, tbl, active) ==
    [result |-> res,
     is_active |-> res.op = "create" /\ res.success /\ res.session_id = active,
     remaining_sessions |-> IF res.op = "delete" /\ res.success THEN Len(tbl) ELSE 0]

(***************************************************************************)
(* GameSessionManager.                                                     *)
(***************************************************************************)
HexPool == {"c0", "c1"}

\* id generation without the collision loop
NextFreeIdUnchecked(base_id, counter, tbl) == base_id

\* _generate_session_id: the collision loop
RECURSIVE NextFreeId(_, _, _)
NextFreeId(base_id, counter, tbl) ==
    LET session_id == IF counter = 0 THEN base_id
                      ELSE base_id \o <<"-">> \o Decimal(counter) IN
    IF session_id \in Keys(tbl) THEN NextFreeId(base_id, counter + 1, tbl)
    ELSE session_id

GenerateSessionId(game_type, short_uuid, tbl, t) ==
    NextFreeId(game_type \o <<"-">> \o TimeStamp(t) \o <<"-", short_uuid>>, 0, tbl)

\* election of the oldest record of the table instead of the most recent
SelectNewActiveSessionFirst(tbl) == IF tbl = <<>> THEN None ELSE tbl[1].key

\* _select_new_active_session: stable sort by last_accessed, descending
SelectNewActiveSession(tbl) ==
    IF tbl = <<>> THEN None
    ELSE LET i == CHOOSE i \in 1..Len(tbl) :
                    /\ \A j \in 1..Len(tbl) : tbl[j].last_accessed <= tbl[i].last_accessed
                    /\ \A j \in 1..(i - 1) : tbl[j].last_accessed < tbl[i].last_accessed
         IN tbl[i].key

\* GameSessionManager() configured by create_session_manager(max_sessions=n)
Init ==
    /\ sessions = <<>>
    /\ active_session_id = None
    /\ max_sessions \in 1..MaxCapacity
    /\ now = 0
    /\ result = NoResult
    /\ emitted = <<>>
    /\ calls = NoCalls

\* the clock advances between calls
Tick ==
    /\ now < MaxTime
    /\ now' = now + 1
    /\ result' = Success("tick")
    /\ emitted' = <<>>
    /\ UNCHANGED <<sessions, active_session_id, max_sessions>>

\* GameSessionManager.configure(max_sessions=n)
Configure(n) ==
    /\ max_sessions' = IF n > 1 THEN n ELSE 1
    /\ result' = Success("configure")
    /\ emitted' = <<>>
    /\ UNCHANGED <<sessions, active_session_id, now>>

\* GameSession(...) as built by create_session
NewSession(session_id, game_type, tags, t) ==
    LET sid == SessionIdField(session_id)
        gt == GameTypeField(game_type) IN
    [ok |-> sid.ok /\ gt.ok,
     rec |-> [key |-> session_id, session_id |-> sid.id, game_type |-> gt.game_type,
              tags |-> validate_tags(tags), created_at |-> t, last_accessed |-> t,
              is_completed |-> FALSE]]

\* a capacity check that lets every request through
LimitReachedNever(tbl, cap) == FALSE

\* the capacity check with > in place of >=
LimitReachedOffByOne(tbl, cap) == Len(tbl) > cap

\* the capacity check of create_session
LimitReached(tbl, cap) == Len(tbl) >= cap

\* no duplicate check: the new session replaces the old one
SessionExistsUnchecked(session_id, tbl) == FALSE

\* the duplicate check of create_session
SessionExists(session_id, tbl) == session_id \in Keys(tbl)

\* activation that ignores the session already active
ShouldActivateAlways(auto_activate, active) == auto_activate

\* "set as active if requested and no active session exists"
ShouldActivate(auto_activate, active) == auto_activate /\ active = None

\* an error return taken after the session id was already made active
RejectedButActivated(tbl, active, error, session_id) ==
    [res |-> Failure("create", error), tbl |-> tbl,
     active |-> IF session_id # None /\ active = None THEN session_id ELSE active,
     ev |-> <<Event("error_occurred", session_id)>>]

\* an error return of create_session: an error event, then the error result;
\* nothing was stored
Rejected(tbl, active, error, session_id) ==
    [res |-> Failure("create", error), tbl |-> tbl, active |-> active,
     ev |-> <<Event("error_occurred", session_id)>>]

\* a create_session that looks for the duplicate id before anything else
CreateOutcomeDuplicateFirst(tbl, active, cap, t, req, short_uuid) ==
    IF req.session_id # None /\ SessionExists(req.session_id, tbl)
    THEN Rejected(tbl, active, "exists", req.session_id)
    ELSE IF LimitReached(tbl, cap) THEN Rejected(tbl, active, "limit", None)
    ELSE IF ~PluginKnown(req.game_type)
    THEN Rejected(tbl, active, "unknown_game_type", None)
    ELSE IF ~ConfigValid(req.config) THEN Rejected(tbl, active, "config", None)
    ELSE LET session_id == IF req.session_id # None THEN req.session_id
                           ELSE GenerateSessionId(req.game_type, short_uuid, tbl, t) IN
         IF SessionExists(session_id, tbl) THEN Rejected(tbl, active, "exists", session_id)
         ELSE IF ~StateCreated(req.config) THEN Rejected(tbl, active, "state", session_id)
         ELSE LET session == NewSession(session_id, req.game_type, req.tags, t) IN
              IF ~session.ok THEN Rejected(tbl, active, "internal", None)
              ELSE LET new_active == IF ShouldActivate(req.auto_activate, active)
                                     THEN session_id ELSE active IN
                   [res |-> [Success("create") EXCEPT !.session_id = session_id,
                                                      !.new_active = new_active],
                    tbl |-> Append(tbl, session.rec),
                    active |-> new_active,
                    ev |-> IF req.emit_events
                           THEN <<Event("session_created", session_id)>> ELSE <<>>]

\* the outcome of create_session on a request that was constructed
CreateOutcome(tbl, active, cap, t, req, short_uuid) ==
    IF LimitReached(tbl, cap) THEN Rejected(tbl, active, "limit", None)
    ELSE IF ~PluginKnown(req.game_type)
    THEN Rejected(tbl, active, "unknown_game_type", None)
    ELSE IF ~ConfigValid(req.config) THEN Rejected(tbl, active, "config", None)
    ELSE LET session_id == IF req.session_id # None THEN req.session_id
                           ELSE GenerateSessionId(req.game_type, short_uuid, tbl, t) IN
         IF SessionExists(session_id, tbl) THEN Rejected(tbl, active, "exists", session_id)
         ELSE IF ~StateCreated(req.config) THEN Rejected(tbl, active, "state", session_id)
         ELSE LET session == NewSession(session_id, req.game_type, req.tags, t) IN
              IF ~session.ok THEN Rejected(tbl, active, "internal", None)
              ELSE LET new_active == IF ShouldActivate(req.auto_activate, active)
                                     THEN session_id ELSE active IN
                   [res |-> [Success("create") EXCEPT !.session_id = session_id,
                                                      !.new_active = new_active],
                    tbl |-> Append(tbl, session.rec),
                    active |-> new_active,
                    ev |-> IF req.emit_events
                           THEN <<Event("session_created", session_id)>> ELSE <<>>]

\* SessionCreationRequest(...) followed by create_session(request); the
\* result echoes the request's session_id, auto_activate, emit_events,
\* game_type and config
CreateSession(hasId, rawId, game_type, rawTags, config, auto_activate, emit_events, short_uuid) ==
    LET rid == RequestSessionId(hasId, rawId) IN
    /\ IF ~rid.ok
       THEN /\ result' = Failure("create", "request_rejected")
            /\ emitted' = <<>>
            /\ UNCHANGED <<sessions, active_session_id>>
       ELSE LET req == [game_type |-> game_type, session_id |-> rid.id,
                        tags |-> validate_tags(rawTags), config |-> config,
                        auto_activate |-> auto_activate, emit_events |-> emit_events]
                out == CreateOutcome(sessions, active_session_id, max_sessions, now,
                                     req, short_uuid) IN
            /\ result' = [out.res EXCEPT !.request_id = rid.id,
                                         !.auto_activate = auto_activate,
                                         !.emit_events = emit_events,
                                         !.game_type = game_type,
                                         !.config = config]
            /\ sessions' = out.tbl
            /\ active_session_id' = out.active
            /\ emitted' = out.ev
    /\ UNCHANGED <<max_sessions, now>>

\* a deletion that forgets the active pointer
ActiveAfterDeleteStale(active, session_id, rest) == active

\* "update active session" after a record was removed
ActiveAfterDelete(active, session_id, rest) ==
    IF active = session_id THEN SelectNewActiveSession(rest) ELSE active

\* what delete_session does to the table and the active pointer
DeleteOutcome(tbl, active, session_id) ==
    IF session_id \notin Keys(tbl) THEN [success |-> FALSE, tbl |-> tbl, active |-> active]
    ELSE LET rest == Remove(tbl, session_id) IN
         [success |-> TRUE, tbl |-> rest,
          active |-> ActiveAfterDelete(active, session_id, rest)]

\* delete_session(session_id, emit_events); the result echoes the id asked for
DeleteSession(session_id, emit_events) ==
    LET out == DeleteOutcome(sessions, active_session_id, session_id) IN
    /\ IF ~out.success
       THEN /\ result' = [Failure("delete", "not_found") EXCEPT !.request_id = session_id]
            /\ emitted' = <<>>
            /\ UNCHANGED <<sessions, active_session_id>>
       ELSE LET new_active == IF active_session_id = session_id THEN out.active
                              ELSE None IN
            /\ sessions' = out.tbl
            /\ active_session_id' = out.active
            /\ result' = [Success("delete") EXCEPT !.session_id = session_id,
                                                   !.request_id = session_id,
                                                   !.new_active = new_active,
                                                   !.previous_active = active_session_id]
            /\ emitted' = IF emit_events THEN <<Event("session_deleted", session_id)>>
                          ELSE <<>>
    /\ UNCHANGED <<max_sessions, now>>

\* get_session(session_id): the looked-up id, None when nothing is found
GetSessionTarget(tbl, active, session_id) ==
    LET sid == IF session_id = None THEN active ELSE session_id IN
    IF sid # None /\ sid \in Keys(tbl) THEN sid ELSE None

\* get_session(session_id) as a call of its own; session_id = None asks for
\* the active session; the result echoes the id asked for
GetSession(session_id) ==
    LET sid == GetSessionTarget(sessions, active_session_id, session_id) IN
    /\ IF sid = None
       THEN /\ result' = [Failure("get", "not_found") EXCEPT !.request_id = session_id]
            /\ UNCHANGED sessions
       ELSE /\ sessions' = TouchIn(sessions, sid, now)
            /\ result' = [Success("get") EXCEPT !.session_id = sid,
                                                !.request_id = session_id]
    /\ emitted' = <<>>
    /\ UNCHANGED <<active_session_id, max_sessions, now>>

\* get_session_info(session_id): does it return success from this table
GetSessionInfoSucceeds(tbl, active, session_id) ==
    LET sid == GetSessionTarget(tbl, active, session_id) IN
    /\ sid # None
    /\ PluginKnown(Lookup(tbl, sid).game_type)

GetSessionInfo(session_id) ==
    LET sid == GetSessionTarget(sessions, active_session_id, session_id) IN
    /\ IF sid = None
       THEN /\ result' = Failure("info", "not_found")
            /\ UNCHANGED sessions
       ELSE /\ sessions' = TouchIn(sessions, sid, now)
            /\ result' = IF GetSessionInfoSucceeds(sessions, active_session_id, session_id)
                         THEN [Success("info") EXCEPT !.session_id = sid]
                         ELSE Failure("info", "internal")
    /\ emitted' = <<>>
    /\ UNCHANGED <<active_session_id, max_sessions, now>>

\* set_active_session(session_id, emit_events); the result echoes the id
\* asked for
SetActiveSession(session_id, emit_events) ==
    /\ IF session_id \notin Keys(sessions)
       THEN /\ result' = [Failure("activate", "not_found") EXCEPT !.request_id = session_id]
            /\ emitted' = <<>>
            /\ UNCHANGED <<sessions, active_session_id>>
       ELSE /\ active_session_id' = session_id
            /\ sessions' = TouchIn(sessions, session_id, now)
            /\ result' = [Success("activate") EXCEPT !.session_id = session_id,
                                                     !.request_id = session_id,
                                                     !.new_active = session_id,
                                                     !.previous_active = active_session_id]
            /\ emitted' = IF emit_events THEN <<Event("session_activated", session_id)>>
                          ELSE <<>>
    /\ UNCHANGED <<max_sessions, now>>

\* update_session_tags(session_id, tags); the result echoes the tags given
UpdateSessionTags(session_id, tags) ==
    LET sid == GetSessionTarget(sessions, active_session_id, session_id) IN
    /\ IF sid = None
       THEN /\ result' = [Failure("update_tags", "not_found") EXCEPT !.tags = tags]
            /\ UNCHANGED sessions
       ELSE /\ sessions' = [sessions EXCEPT ![IndexOf(sessions, sid)] =
                               touch([@ EXCEPT !.tags = validate_tags(tags)], now)]
            /\ result' = [Success("update_tags") EXCEPT !.session_id = sid, !.tags = tags]
    /\ emitted' = <<>>
    /\ UNCHANGED <<active_session_id, max_sessions, now>>

\* a bulk delete that looks every id up in the table as it was at the start
BulkDeleteLoopOnSnapshot(session_ids, tbl, active, items) ==
    LET rest == SelectSeq(tbl, LAMBDA s : s.key \notin Range(session_ids)) IN
    [tbl |-> rest,
     active |-> IF active \in Range(session_ids) THEN SelectNewActiveSession(rest)
                ELSE active,
     items |-> [i \in 1..Len(session_ids) |-> session_ids[i] \in Keys(tbl)]]

\* the loop of bulk_delete_sessions over session_ids
RECURSIVE BulkDeleteLoop(_, _, _, _)
BulkDeleteLoop(session_ids, tbl, active, items) ==
    IF session_ids = <<>> THEN [tbl |-> tbl, active |-> active, items |-> items]
    ELSE LET session_id == Head(session_ids) IN
         IF session_id \in Keys(tbl)
         THEN LET rest == Remove(tbl, session_id) IN
              BulkDeleteLoop(Tail(session_ids), rest,
                             ActiveAfterDelete(active, session_id, rest),
                             Append(items, TRUE))
         ELSE BulkDeleteLoop(Tail(session_ids), tbl, active, Append(items, FALSE))

\* a count that takes every requested id for a success
CountTrueAll(items) == Len(items)

CountTrue(items) == Cardinality({i \in 1..Len(items) : items[i]})

\* SessionBulkResult(...): FALSE when validate_successful_count or a ge=0
\* constraint raises
BulkResultValid(total_requested, successful, failed) ==
    /\ total_requested >= 0 /\ successful >= 0 /\ failed >= 0
    /\ successful + failed = total_requested

\* the result of a bulk call; it echoes the id list
BulkResult(op, session_ids, items) ==
    LET successful == CountTrue(items)
        failed == Len(session_ids) - successful IN
    IF BulkResultValid(Len(session_ids), successful, failed)
    THEN [Success(op) EXCEPT !.total_requested = Len(session_ids),
                             !.successful = successful, !.failed = failed,
                             !.items = items, !.ids = session_ids]
    ELSE [Failure(op, "internal") EXCEPT !.ids = session_ids]

\* bulk_delete_sessions(session_ids, emit_events)
BulkDeleteSessions(session_ids, emit_events) ==
    LET out == BulkDeleteLoop(session_ids, sessions, active_session_id, <<>>) IN
    /\ sessions' = out.tbl
    /\ active_session_id' = out.active
    /\ result' = BulkResult("bulk_delete", session_ids, out.items)
    /\ emitted' = IF emit_events /\ result'.success
                  THEN <<Event("bulk_operation", None)>> ELSE <<>>
    /\ UNCHANGED <<max_sessions, now>>

\* add_tag without the test for a blank tag
add_tagAllowingBlank(s, tag, t) ==
    IF Strip(tag) \notin Range(s.tags)
    THEN touch([s EXCEPT !.tags = Append(@, Strip(tag))], t)
    ELSE s

\* add_tag without the test for a tag already held
add_tagAlwaysAppending(s, tag, t) ==
    IF tag = <<>> \/ Strip(tag) = <<>> THEN s
    ELSE touch([s EXCEPT !.tags = Append(@, Strip(tag))], t)

\* GameSession.add_tag
add_tag(s, tag, t) ==
    IF tag = <<>> \/ Strip(tag) = <<>> THEN s
    ELSE LET clean_tag == Strip(tag) IN
         IF clean_tag \notin Range(s.tags)
         THEN touch([s EXCEPT !.tags = Append(@, clean_tag)], t)
         ELSE s

RECURSIVE AddTags(_, _, _)
AddTags(s, tags, t) ==
    IF tags = <<>> THEN s ELSE AddTags(add_tag(s, Head(tags), t), Tail(tags), t)

\* the loop of bulk_tag_sessions over session_ids
RECURSIVE BulkTagLoop(_, _, _, _, _)
BulkTagLoop(session_ids, tags, tbl, items, t) ==
    IF session_ids = <<>> THEN [tbl |-> tbl, items |-> items]
    ELSE LET session_id == Head(session_ids) IN
         IF session_id \in Keys(tbl)
         THEN BulkTagLoop(Tail(session_ids), tags,
                          [tbl EXCEPT ![IndexOf(tbl, session_id)] = AddTags(@, tags, t)],
                          Append(items, TRUE), t)
         ELSE BulkTagLoop(Tail(session_ids), tags, tbl, Append(items, FALSE), t)

\* bulk_tag_sessions(session_ids, tags); the result echoes the tags given
BulkTagSessions(session_ids, tags) ==
    LET out == BulkTagLoop(session_ids, tags, sessions, <<>>, now) IN
    /\ sessions' = out.tbl
    /\ result' = [BulkResult("bulk_tag", session_ids, out.items) EXCEPT !.tags = tags]
    /\ emitted' = <<>>
    /\ UNCHANGED <<active_session_id, max_sessions, now>>

\* GameSession.mark_completed, as a game move that ends the game calls it
MarkCompleted(session_id) ==
    /\ session_id \in Keys(sessions)
    /\ sessions' = [sessions EXCEPT ![IndexOf(sessions, session_id)] =
                       touch([@ EXCEPT !.is_completed = TRUE], now)]
    /\ result' = [Success("mark_completed") EXCEPT !.session_id = session_id]
    /\ emitted' = <<>>
    /\ UNCHANGED <<active_session_id, max_sessions, now>>

(***************************************************************************)
(* Cleanup.                                                                *)
(***************************************************************************)
DefaultMaxAgeHours == 24

DefaultMaxIdleHours == 12

Omitted == [given |-> FALSE, hours |-> 0]

Hours(h) == [given |-> TRUE, hours |-> h]

\* CleanupCriteria(...): an omitted threshold takes the field's default; the
\* gt=0 constraint and validate_idle_less_than_age run on supplied values only
CleanupCriteria(max_age_hours, max_idle_hours, keep_completed, keep_active, keep_tagged, exclude_game_types, dry_run) ==
    LET age_ok == ~max_age_hours.given \/ max_age_hours.hours > 0
        max_age == IF age_ok /\ max_age_hours.given THEN max_age_hours.hours
                   ELSE DefaultMaxAgeHours
        idle_ok == \/ ~max_idle_hours.given
                   \/ max_idle_hours.hours > 0 /\ ~(max_idle_hours.hours > max_age) IN
    [ok |-> age_ok /\ idle_ok,
     max_age_hours |-> max_age,
     max_idle_hours |-> IF max_idle_hours.given THEN max_idle_hours.hours
                        ELSE DefaultMaxIdleHours,
     keep_completed |-> keep_completed, keep_active |-> keep_active,
     keep_tagged |-> keep_tagged, exclude_game_types |-> exclude_game_types,
     dry_run |-> dry_run]

\* GameSession.get_age_hours / get_idle_hours
get_age_hours(s, t) == t - s.created_at

get_idle_hours(s, t) == t - s.last_accessed

\* GameSession.is_older_than / is_idle_longer_than
is_older_than(s, hours, t) == get_age_hours(s, t) > hours

is_idle_longer_than(s, hours, t) == get_idle_hours(s, t) > hours

\* a decision whose idle check does not spare completed sessions
ShouldDeleteCompletedToo(s, active, criteria, t) ==
    IF criteria.keep_active /\ s.key = active THEN FALSE
    ELSE IF is_older_than(s, criteria.max_age_hours, t) THEN TRUE
    ELSE is_idle_longer_than(s, criteria.max_idle_hours, t)

\* the decision cleanup_sessions takes for one record
ShouldDelete(s, active, criteria, t) ==
    IF criteria.keep_active /\ s.key = active THEN FALSE
    ELSE IF is_older_than(s, criteria.max_age_hours, t) THEN TRUE
    ELSE IF ~(s.is_completed /\ criteria.keep_completed)
         THEN is_idle_longer_than(s, criteria.max_idle_hours, t)
         ELSE FALSE

\* a selection that stops at the first session to delete
SessionsToDeleteFirstOnly(tbl, active, criteria, t) ==
    LET all == SelectSeq(tbl, LAMBDA s : ShouldDelete(s, active, criteria, t)) IN
    IF all = <<>> THEN <<>> ELSE <<all[1].key>>

\* sessions_to_delete, in table order
RECURSIVE SessionsToDelete(_, _, _, _)
SessionsToDelete(tbl, active, criteria, t) ==
    IF tbl = <<>> THEN <<>>
    ELSE (IF ShouldDelete(Head(tbl), active, criteria, t) THEN <<Head(tbl).key>> ELSE <<>>)
         \o SessionsToDelete(Tail(tbl), active, criteria, t)

RECURSIVE RemoveAll(_, _)
RemoveAll(tbl, ids) ==
    IF ids = <<>> THEN tbl
    ELSE RemoveAll(IF Head(ids) \in Keys(tbl) THEN Remove(tbl, Head(ids)) ELSE tbl, Tail(ids))

\* re-election placed outside the dry_run guard
ActiveAfterCleanupUnguarded(dry_run, active, rest) ==
    IF active \notin Keys(rest) THEN SelectNewActiveSession(rest) ELSE active

\* "update active session if it was deleted", inside "if not criteria.dry_run"
ActiveAfterCleanup(dry_run, active, rest) ==
    IF ~dry_run /\ active \notin Keys(rest) THEN SelectNewActiveSession(rest) ELSE active

\* cleanup_sessions(criteria) on criteria that were constructed; the result
\* carries the criteria (cleanup_criteria)
CleanupOutcome(tbl, active, criteria, t) ==
    LET sessions_to_delete == SessionsToDelete(tbl, active, criteria, t)
        rest == IF criteria.dry_run THEN tbl ELSE RemoveAll(tbl, sessions_to_delete)
        new_active == ActiveAfterCleanup(criteria.dry_run, active, rest) IN
    [tbl |-> rest, active |-> new_active,
     res |-> [Success("cleanup") EXCEPT !.listed = sessions_to_delete,
                                        !.deleted = Len(tbl) - Len(rest),
                                        !.dry_run = criteria.dry_run,
                                        !.new_active = new_active,
                                        !.previous_active = active,
                                        !.criteria = criteria]]

\* CleanupCriteria(...) followed by cleanup_sessions(criteria)
CleanupSessions(max_age_hours, max_idle_hours, keep_completed, keep_active, keep_tagged, exclude_game_types, dry_run) ==
    LET criteria == CleanupCriteria(max_age_hours, max_idle_hours, keep_completed,
                                    keep_active, keep_tagged, exclude_game_types,
                                    dry_run) IN
    /\ IF ~criteria.ok
       THEN /\ result' = Failure("cleanup", "criteria_rejected")
            /\ UNCHANGED <<sessions, active_session_id>>
       ELSE LET out == CleanupOutcome(sessions, active_session_id, criteria, now) IN
            /\ sessions' = out.tbl
            /\ active_session_id' = out.active
            /\ result' = out.res
    /\ emitted' = <<>>
    /\ UNCHANGED <<max_sessions, now>>

(***************************************************************************)
(* Listing.                                                                *)
(***************************************************************************)
\* SessionFilter(...) with the fields list_sessions reads, and
\* is_active_session at its default; ok = FALSE when a ge=0 constraint
\* rejects a threshold.  A field that is not given is None (game_type),
\* empty (tags), Omitted (the thresholds) or "None" (is_active_session)
SessionFilter(game_type, tags, include_completed, max_age_hours, max_idle_hours) ==
    [ok |-> /\ max_age_hours.given => max_age_hours.hours >= 0
            /\ max_idle_hours.given => max_idle_hours.hours >= 0,
     game_type |-> game_type, tags |-> tags, include_completed |-> include_completed,
     max_age_hours |-> max_age_hours, max_idle_hours |-> max_idle_hours,
     is_active_session |-> "None"]

\* create_basic_filter(...): "tags or []", and is_active_session is True
\* when active_only is set, None otherwise
create_basic_filter(game_type, tags, include_completed, max_age_hours, active_only) ==
    [SessionFilter(game_type, tags, include_completed, max_age_hours, Omitted)
        EXCEPT !.is_active_session = IF active_only THEN "True" ELSE "None"]

\* SessionFilter(): every field at its default
DefaultFilter == SessionFilter(None, <<>>, TRUE, Omitted, Omitted)

\* the truth value Python gives an Optional[float]: None and 0 are false
Truthy(h) == h.given /\ h.hours # 0

\* has_all_tags in the place of has_any_tag
has_all_tags(s, tags) == \A i \in 1..Len(tags) : tags[i] \in Range(s.tags)

\* GameSession.has_any_tag
has_any_tag(s, tags) == \E i \in 1..Len(tags) : tags[i] \in Range(s.tags)

\* matches_filter without the completion filter
matches_filterAnyCompletion(s, game_type, tags, include_completed, max_age_hours, max_idle_hours, t) ==
    /\ ~(game_type # None /\ s.game_type # game_type)
    /\ ~(tags # <<>> /\ ~has_any_tag(s, tags))
    /\ ~(Truthy(max_age_hours) /\ get_age_hours(s, t) > max_age_hours.hours)
    /\ ~(Truthy(max_idle_hours) /\ get_idle_hours(s, t) > max_idle_hours.hours)

\* GameSession.matches_filter
matches_filter(s, game_type, tags, include_completed, max_age_hours, max_idle_hours, t) ==
    IF game_type # None /\ s.game_type # game_type THEN FALSE
    ELSE IF ~include_completed /\ s.is_completed THEN FALSE
    ELSE IF tags # <<>> /\ ~has_any_tag(s, tags) THEN FALSE
    ELSE IF Truthy(max_age_hours) /\ get_age_hours(s, t) > max_age_hours.hours THEN FALSE
    ELSE IF Truthy(max_idle_hours) /\ get_idle_hours(s, t) > max_idle_hours.hours THEN FALSE
    ELSE TRUE

\* filtered_sessions, in table order
RECURSIVE FilteredSessions(_, _, _)
FilteredSessions(tbl, filter_criteria, t) ==
    IF tbl = <<>> THEN <<>>
    ELSE (IF matches_filter(Head(tbl), filter_criteria.game_type, filter_criteria.tags,
                            filter_criteria.include_completed,
                            filter_criteria.max_age_hours,
                            filter_criteria.max_idle_hours, t)
          THEN <<Head(tbl)>> ELSE <<>>)
         \o FilteredSessions(Tail(tbl), filter_criteria, t)

\* one step of a stable descending sort: info goes behind every entry that
\* was accessed at the same time or later
InsertByLastAccessed(sorted, info) ==
    LET n == Cardinality({i \in 1..Len(sorted) :
                             sorted[i].last_accessed >= info.last_accessed}) IN
    SubSeq(sorted, 1, n) \o <<info>> \o SubSeq(sorted, n + 1, Len(sorted))

\* a listing left in table order
SortInTableOrder(session_infos) == session_infos

\* session_infos.sort(key=lambda s: s.last_accessed, reverse=True)
RECURSIVE SortByLastAccessed(_)
SortByLastAccessed(session_infos) ==
    IF session_infos = <<>> THEN <<>>
    ELSE InsertByLastAccessed(
             SortByLastAccessed(SubSeq(session_infos, 1, Len(session_infos) - 1)),
             session_infos[Len(session_infos)])

\* list_sessions(filter_criteria) on a filter that was constructed: the ids
\* of the response's sessions, in order; the response carries the filter
\* (filter_applied)
ListFiltered(filter_criteria) ==
    /\ IF ~filter_criteria.ok
       THEN result' = Failure("list", "filter_rejected")
       ELSE LET session_infos ==
                    SortByLastAccessed(FilteredSessions(sessions, filter_criteria, now)) IN
            result' = [Success("list") EXCEPT
                          !.listed = [i \in 1..Len(session_infos) |-> session_infos[i].key],
                          !.filter = filter_criteria]
    /\ emitted' = <<>>
    /\ UNCHANGED <<sessions, active_session_id, max_sessions, now>>

\* SessionFilter(...) followed by list_sessions(filter_criteria)
ListSessions(game_type, tags, include_completed, max_age_hours, max_idle_hours) ==
    ListFiltered(SessionFilter(game_type, tags, include_completed,
                               max_age_hours, max_idle_hours))

(***************************************************************************)
(* Statistics and health.  These operators take the clock in minutes: an   *)
(* age of x minutes is x / 60 hours, and "x / 60 > h" is x > h * 60.       *)
(***************************************************************************)
\* total_seconds() / 3600, for a clock that counts minutes
MinutesPerHour == 60

\* GameSession.is_recent(hours)
is_recent(s, hours, t) == t - s.last_accessed < hours * MinutesPerHour

\* GameSession.is_stale(hours): is_recent is called with its default, 1.0
is_stale(s, hours, t) ==
    /\ t - s.created_at > hours * MinutesPerHour
    /\ ~is_recent(s, 1, t)

\* a status that tests for idleness before staleness
SessionStatusIdleFirst(s, t) ==
    IF s.is_completed THEN "completed"
    ELSE IF t - s.last_accessed > 2 * MinutesPerHour THEN "idle"
    ELSE IF is_stale(s, 24, t) THEN "stale"
    ELSE "active"

\* the status _calculate_enhanced_stats gives one session
SessionStatus(s, t) ==
    IF s.is_completed THEN "completed"
    ELSE IF is_stale(s, 24, t) THEN "stale"
    ELSE IF t - s.last_accessed > 2 * MinutesPerHour THEN "idle"
    ELSE "active"

\* sessions_by_status; a status no session has counts 0
SessionsByStatus(tbl, t) ==
    [st \in {"completed", "stale", "idle", "active"} |->
        Cardinality({i \in 1..Len(tbl) : SessionStatus(tbl[i], t) = st})]

\* _calculate_enhanced_stats()
CalculateEnhancedStats ==
    /\ result' = [Success("stats") EXCEPT
                     !.total_requested = Len(sessions),
                     !.sessions_by_status = SessionsByStatus(sessions, now)]
    /\ emitted' = <<>>
    /\ UNCHANGED <<sessions, active_session_id, max_sessions, now>>

\* get_stale_sessions(): is_stale with its default, 24.0
StaleSessions(tbl, t) == {i \in 1..Len(tbl) : is_stale(tbl[i], 24, t)}

\* "healthy" if len(self.sessions) < self._max_sessions * 0.9 else "warning"
HealthStatus(total, cap) == IF 10 * total < 9 * cap THEN "healthy" ELSE "warning"

\* get_health_status()
GetHealthStatus ==
    /\ result' = [Success("health") EXCEPT
                     !.status = HealthStatus(Len(sessions), max_sessions),
                     !.total_requested = Len(sessions),
                     !.stale_sessions = Cardinality(StaleSessions(sessions, now)),
                     !.sessions_by_status = SessionsByStatus(sessions, now)]
    /\ emitted' = <<>>
    /\ UNCHANGED <<sessions, active_session_id, max_sessions, now>>

(***************************************************************************)
(* Inputs.                                                                 *)
(***************************************************************************)
NoId == [given |-> FALSE, raw |-> <<>>]

GivenId(raw) == [given |-> TRUE, raw |-> raw]

SessionIdInputs == {NoId, GivenId(<<"a">>), GivenId(<<" ", "b", " ">>), GivenId(<<"a", "!">>)}

\* game type and plugin config of a request
PluginInputs == {<<<<"tic_tac_toe">>, "default">>, <<<<"tic_tac_toe">>, "invalid">>,
                 <<<<"number_guessing">>, "state_raises">>, <<<<"chess">>, "default">>}

\* a raw tag list: untrimmed, with a duplicate and a blank entry
TagsX == << <<" ", "x">>, <<"x">>, <<" ">> >>

UnknownId == <<"z">>

KnownOrUnknownIds == Keys(sessions) \cup {UnknownId}

\* id lists of at most MaxBulk entries over known and unknown ids
RECURSIVE IdLists(_)
IdLists(n) ==
    IF n = 0 THEN {<<>>}
    ELSE LET shorter == IdLists(n - 1) IN
         shorter \cup {Append(l, id) : l \in {x \in shorter : Len(x) = n - 1},
                                       id \in KnownOrUnknownIds}

ThresholdInputs == {<<Hours(1), Hours(1)>>, <<Hours(2), Hours(1)>>, <<Hours(1), Hours(2)>>,
                    <<Hours(1), Omitted>>, <<Omitted, Omitted>>}

Create ==
    \E sid \in SessionIdInputs, pl \in PluginInputs, auto_activate \in BOOLEAN :
       CreateSession(sid.given, sid.raw, pl[1], TagsX, pl[2], auto_activate, TRUE, "c0")

Delete == \E id \in KnownOrUnknownIds : DeleteSession(id, TRUE)

Activate == \E id \in KnownOrUnknownIds : SetActiveSession(id, TRUE)

Get == \E id \in KnownOrUnknownIds \cup {None} : GetSession(id)

UpdateTags == \E id \in KnownOrUnknownIds : UpdateSessionTags(id, TagsX)

BulkDelete == \E ids \in IdLists(MaxBulk) : BulkDeleteSessions(ids, TRUE)

BulkTag == \E ids \in IdLists(MaxBulk) : BulkTagSessions(ids, TagsX)

Cleanup ==
    \E th \in ThresholdInputs, keep_active \in BOOLEAN, dry_run \in BOOLEAN :
       CleanupSessions(th[1], th[2], TRUE, keep_active, <<>>, <<>>, dry_run)

Next ==
    \/ Tick /\ Sequential
    \/ Create /\ Sequential
    \/ Delete /\ Sequential
    \/ Activate /\ Sequential
    \/ Get /\ Sequential
    \/ UpdateTags /\ Sequential
    \/ BulkDelete /\ Sequential
    \/ BulkTag /\ Sequential
    \/ Cleanup /\ Sequential

Spec == Init /\ [][Next]_vars

(***************************************************************************)
(* Session ids: explicit ids of every shape, generated ids that collide.   *)
(***************************************************************************)
\* the id the manager generates for tic_tac_toe at time 0 with hex part c0
BaseId == <<"tic_tac_toe", "-", "0", "0", "-", "c0">>

IdInputs == {NoId, GivenId(BaseId), GivenId(BaseId \o <<"-", "1">>),
             GivenId(<<" ", "b", " ">>), GivenId(<<" ", " ">>), GivenId(<<"a", "!">>)}

TypeInputs == {<<"tic_tac_toe">>, <<"Tic_Tac_Toe">>}

\* a manager configured for MaxIdCapacity sessions
InitIds ==
    /\ sessions = <<>>
    /\ active_session_id = None
    /\ max_sessions = MaxIdCapacity
    /\ now = 0
    /\ result = NoResult
    /\ emitted = <<>>
    /\ calls = NoCalls

CreateIds ==
    \E sid \in IdInputs, game_type \in TypeInputs, short_uuid \in HexPool :
       CreateSession(sid.given, sid.raw, game_type, <<>>, "default", TRUE, FALSE, short_uuid)

DeleteIds == \E id \in Keys(sessions) : DeleteSession(id, FALSE)

InfoIds == \E id \in KnownOrUnknownIds \cup {None} : GetSessionInfo(id)

NextIds ==
    \/ Tick /\ Sequential
    \/ CreateIds /\ Sequential
    \/ DeleteIds /\ Sequential
    \/ InfoIds /\ Sequential

SpecIds == InitIds /\ [][NextIds]_vars

(***************************************************************************)
(* Election of the active session: three sessions, touched in any order.   *)
(***************************************************************************)
ElectIds == {<<"a">>, <<"b">>, <<"x">>}

\* a manager configured for MaxElectCapacity sessions
InitElect ==
    /\ sessions = <<>>
    /\ active_session_id = None
    /\ max_sessions = MaxElectCapacity
    /\ now = 0
    /\ result = NoResult
    /\ emitted = <<>>
    /\ calls = NoCalls

CreateElect ==
    \E id \in ElectIds :
       CreateSession(TRUE, id, <<"tic_tac_toe">>, TagsX, "default", TRUE, FALSE, "c0")

DeleteElect == \E id \in Keys(sessions) : DeleteSession(id, FALSE)

ActivateElect == \E id \in Keys(sessions) : SetActiveSession(id, FALSE)

GetElect == \E id \in Keys(sessions) : GetSession(id)

UpdateTagsElect == \E id \in Keys(sessions) : UpdateSessionTags(id, TagsX)

NextElect ==
    \/ Tick /\ Sequential
    \/ CreateElect /\ Sequential
    \/ DeleteElect /\ Sequential
    \/ ActivateElect /\ Sequential
    \/ GetElect /\ Sequential
    \/ UpdateTagsElect /\ Sequential

SpecElect == InitElect /\ [][NextElect]_vars

(***************************************************************************)
(* Cleanup: tagged and untagged sessions of two game types, completed or   *)
(* not, under every combination of the criteria.                           *)
(***************************************************************************)
CleanupIds == {<<"a">>, <<"b">>}

KeepTag == <<"x">>

\* game type and raw tags of the sessions created
KindInputs == {<<<<"tic_tac_toe">>, <<>>>>, <<<<"tic_tac_toe">>, <<KeepTag>>>>,
               <<<<"number_guessing">>, <<>>>>}

\* keep_tagged and exclude_game_types of the criteria
ProtectionInputs == {<<<<>>, <<>>>>, <<<<KeepTag>>, <<>>>>, <<<<>>, <<<<"tic_tac_toe">>>>>>}

CreateForCleanup ==
    \E id \in CleanupIds, kind \in KindInputs :
       CreateSession(TRUE, id, kind[1], kind[2], "default", TRUE, FALSE, "c0")

CompleteForCleanup == \E id \in Keys(sessions) : MarkCompleted(id)

CleanupAny ==
    \E th \in {<<Hours(2), Hours(1)>>, <<Hours(1), Hours(1)>>}, pr \in ProtectionInputs,
       keep_completed \in BOOLEAN, keep_active \in BOOLEAN, dry_run \in BOOLEAN :
       CleanupSessions(th[1], th[2], keep_completed, keep_active, pr[1], pr[2], dry_run)

NextCleanup ==
    \/ Tick /\ Sequential
    \/ CreateForCleanup /\ Sequential
    \/ CompleteForCleanup /\ Sequential
    \/ CleanupAny /\ Sequential

SpecCleanup == Init /\ [][NextCleanup]_vars

(***************************************************************************)
(* Tags: raw tag lists with blanks, untrimmed entries and duplicates.      *)
(***************************************************************************)
TagIds == {<<"a">>, <<"b">>}

RawTagLists == {<<>>, <<<<"y">>>>, <<<<"x">>, <<"y">>, <<"x">>>>,
                <<<<" ", "x">>, <<" ">>, <<>>, <<"x", " ">>>>}

CreateTagged ==
    \E id \in TagIds, rawTags \in RawTagLists :
       CreateSession(TRUE, id, <<"tic_tac_toe">>, rawTags, "default", TRUE, FALSE, "c0")

DeleteTagged == \E id \in Keys(sessions) : DeleteSession(id, FALSE)

UpdateTagsAny ==
    \E id \in KnownOrUnknownIds \cup {None}, tags \in RawTagLists : UpdateSessionTags(id, tags)

BulkTagAny ==
    \E ids \in IdLists(MaxBulk), tags \in RawTagLists : BulkTagSessions(ids, tags)

NextTags ==
    \/ Tick /\ Sequential
    \/ CreateTagged /\ Sequential
    \/ DeleteTagged /\ Sequential
    \/ UpdateTagsAny /\ Sequential
    \/ BulkTagAny /\ Sequential

SpecTags == Init /\ [][NextTags]_vars

(***************************************************************************)
(* Listing: sessions of three kinds, touched and completed at any time,    *)
(* listed under filters on each field.                                     *)
(***************************************************************************)
ListIds == {<<"a">>, <<"b">>}

\* game type and raw tags of the sessions created
ListedKinds == {<<<<"tic_tac_toe">>, <<<<"x">>>>>>, <<<<"number_guessing">>, <<<<"y">>>>>>,
                <<<<"tic_tac_toe">>, <<>>>>}

\* game_type, tags, include_completed, max_age_hours, max_idle_hours
FilterInputs ==
    {<<None, <<>>, TRUE, Omitted, Omitted>>,
     <<None, <<>>, FALSE, Omitted, Omitted>>,
     <<None, <<<<"x">>>>, FALSE, Omitted, Omitted>>,
     <<None, <<>>, FALSE, Hours(1), Omitted>>,
     <<None, <<<<"x">>>>, TRUE, Omitted, Omitted>>,
     <<None, <<<<"x">>, <<"y">>>>, TRUE, Omitted, Omitted>>,
     <<None, <<>>, TRUE, Hours(0), Omitted>>,
     <<None, <<>>, TRUE, Hours(1), Omitted>>,
     <<None, <<>>, TRUE, Omitted, Hours(0)>>,
     <<None, <<>>, TRUE, Omitted, Hours(1)>>,
     <<<<"tic_tac_toe">>, <<>>, TRUE, Omitted, Omitted>>,
     <<None, <<>>, TRUE, Hours(-1), Omitted>>}

CreateListed ==
    \E id \in ListIds, kind \in ListedKinds :
       CreateSession(TRUE, id, kind[1], kind[2], "default", TRUE, FALSE, "c0")

GetListed == \E id \in Keys(sessions) : GetSession(id)

CompleteListed == \E id \in Keys(sessions) : MarkCompleted(id)

ListAny == \E f \in FilterInputs : ListSessions(f[1], f[2], f[3], f[4], f[5])

\* list_sessions(create_basic_filter(active_only=...))
ListBasic ==
    \E active_only \in BOOLEAN :
       ListFiltered(create_basic_filter(None, <<>>, TRUE, Omitted, active_only))

NextList ==
    \/ Tick /\ Sequential
    \/ CreateListed /\ Sequential
    \/ GetListed /\ Sequential
    \/ CompleteListed /\ Sequential
    \/ ListAny /\ Sequential
    \/ ListBasic /\ Sequential

SpecList == Init /\ [][NextList]_vars

(***************************************************************************)
(* Statistics: the clock counts minutes and stops at the instants where a  *)
(* status can change.                                                      *)
(***************************************************************************)
StatInstants == {0, 60, 90, 120, 150, 1440, 1500}

StatIds == {<<"a">>, <<"b">>}

\* the clock moves on to a later instant
AdvanceTo(t) ==
    /\ t > now
    /\ now' = t
    /\ result' = Success("tick")
    /\ emitted' = <<>>
    /\ UNCHANGED <<sessions, active_session_id, max_sessions>>

Advance == \E t \in StatInstants : AdvanceTo(t)

CreateForStats ==
    \E id \in StatIds : CreateSession(TRUE, id, <<"tic_tac_toe">>, <<>>, "default", TRUE, TRUE, "c0")

GetForStats == \E id \in StatIds : GetSession(id)

CompleteForStats == \E id \in StatIds : MarkCompleted(id)

NextStats ==
    \/ Advance /\ Sequential
    \/ CreateForStats /\ Sequential
    \/ GetForStats /\ Sequential
    \/ CompleteForStats /\ Sequential
    \/ CalculateEnhancedStats /\ Sequential
    \/ GetHealthStatus /\ Sequential

SpecStats == Init /\ [][NextStats]_vars

(***************************************************************************)
(* Reconfiguration: max_sessions is changed while sessions exist.          *)
(***************************************************************************)
ConfigIds == {<<"a">>, <<"b">>, <<"c">>}

\* the values configure is called with
ConfigInputs == 0..MaxCapacity

CreateConfigured ==
    \E id \in ConfigIds :
       CreateSession(TRUE, id, <<"tic_tac_toe">>, <<>>, "default", TRUE, TRUE, "c0")

DeleteConfigured == \E id \in ConfigIds : DeleteSession(id, TRUE)

BulkDeleteConfigured == BulkDeleteSessions(<< <<"a">>, <<"b">> >>, TRUE)

CleanupConfigured ==
    \E dry_run \in BOOLEAN :
       CleanupSessions(Hours(1), Hours(1), TRUE, FALSE, <<>>, <<>>, dry_run)

ConfigureAny == \E n \in ConfigInputs : Configure(n)

NextConfig ==
    \/ Tick /\ Sequential
    \/ CreateConfigured /\ Sequential
    \/ DeleteConfigured /\ Sequential
    \/ BulkDeleteConfigured /\ Sequential
    \/ CleanupConfigured /\ Sequential
    \/ ConfigureAny /\ Sequential

SpecConfig == Init /\ [][NextConfig]_vars

(***************************************************************************)
(* Interleaved calls: at most MaxCalls calls of create, delete, activate,  *)
(* bulk delete and cleanup, each suspended at the sink when it emits an    *)
(* event.                                                                  *)
(***************************************************************************)
AsyncIds == {<<"a">>}

AsyncCreateIds == {NoId, GivenId(<<"a">>)}

AsyncTypes == {<<"tic_tac_toe">>, <<"chess">>}

AsyncIdLists == {<< <<"a">>, BaseId >>}

\* the next call to be made
NextCall == CHOOSE c \in 1..MaxCalls : calls[c].pc = "idle" /\ \A d \in 1..(c - 1) : calls[d].pc # "idle"

CallsLeft == \E c \in 1..MaxCalls : calls[c].pc = "idle"

\* a call that ran up to its first await, or to its return when it emitted
\* nothing; res and events are what its uninterrupted part produced
Started(res, events, tbl, active) ==
    IF events = <<>>
    THEN [pc |-> "returned", res |-> res, sink |-> "none",
          returned |-> Delivered(res, "none", tbl, active)]
    ELSE [pc |-> "awaiting", res |-> res, sink |-> "none", returned |-> NoReturn]

\* the caller's task is scheduled and runs up to its await or its return
Begin ==
    /\ CallsLeft
    /\ calls' = [calls EXCEPT ![NextCall] = Started(result', emitted', sessions', active_session_id')]

CreateAsync ==
    /\ \E sid \in AsyncCreateIds, type \in AsyncTypes :
          CreateSession(sid.given, sid.raw, type, <<>>, "default", TRUE, TRUE, "c0")
    /\ Begin

DeleteAsync ==
    /\ \E id \in AsyncIds : DeleteSession(id, TRUE)
    /\ Begin

ActivateAsync ==
    /\ \E id \in AsyncIds : SetActiveSession(id, TRUE)
    /\ Begin

BulkDeleteAsync ==
    /\ \E ids \in AsyncIdLists : BulkDeleteSessions(ids, TRUE)
    /\ Begin

CleanupAsync ==
    /\ CleanupSessions(Hours(1), Hours(1), TRUE, FALSE, <<>>, <<>>, FALSE)
    /\ Begin

\* the sink invocation of call c is over: it completed or it raised
SinkCompletes(c) ==
    /\ calls[c].pc = "awaiting"
    /\ \E outcome \in {"done", "raises"} :
          calls' = [calls EXCEPT ![c].pc = "resumable", ![c].sink = outcome]
    /\ UNCHANGED <<sessions, active_session_id, max_sessions, now, result, emitted>>

\* call c is resumed after its await and runs to its return statement
Return(c) ==
    /\ calls[c].pc = "resumable"
    /\ calls' = [calls EXCEPT ![c].pc = "returned",
                              ![c].returned = Delivered(calls[c].res, calls[c].sink,
                                                        sessions, active_session_id)]
    /\ UNCHANGED <<sessions, active_session_id, max_sessions, now, result, emitted>>

SinkStep == \E c \in 1..MaxCalls : SinkCompletes(c)

ReturnStep == \E c \in 1..MaxCalls : Return(c)

NextAsync ==
    \/ Tick /\ Sequential
    \/ CreateAsync
    \/ DeleteAsync
    \/ ActivateAsync
    \/ BulkDeleteAsync
    \/ CleanupAsync
    \/ SinkStep
    \/ ReturnStep

SpecAsync == Init /\ [][NextAsync]_vars

\* the event loop resumes every task whose await is over; nothing obliges
\* the sink to complete
SpecAsyncFair == SpecAsync /\ \A c \in 1..MaxCalls : WF_vars(Return(c))


(***************************************************************************)
(* Claims.                                                                 *)
(***************************************************************************)
\* create_session was called (the request was constructed) in this step
CreateCalled == result.op = "create" /\ result.error # "request_rejected"

\* C1: in every reachable state active_session_id is null or the id of a
\* record in the session table
C1_ActiveIsNullOrInTable ==
    active_session_id = None \/ active_session_id \in Keys(sessions)

\* a cleanup removed the active record and another record was elected
C1_Witness ==
    /\ result.op = "cleanup" /\ ~result.dry_run
    /\ result.previous_active # None
    /\ result.previous_active \notin Keys(sessions)
    /\ active_session_id # None

\* C2: create_session fails for capacity exactly when the table holds
\* max_sessions records or more before the call; every record removed by
\* delete_session, bulk_delete_sessions or cleanup_sessions makes the table
\* one record smaller, so that it frees capacity
C2_CapacityExactlyWhenFull ==
    [][/\ CreateCalled' =>
            /\ (result'.error = "limit") <=> (Len(sessions) >= max_sessions)
            /\ Len(sessions') = Len(sessions) + (IF result'.success THEN 1 ELSE 0)
       /\ (result'.op = "delete" /\ result'.success) => Len(sessions') = Len(sessions) - 1
       /\ (result'.op = "bulk_delete" /\ result'.success) =>
            Len(sessions') = Len(sessions) - result'.successful
       /\ (result'.op = "cleanup" /\ result'.success) =>
            Len(sessions') = Len(sessions) - result'.deleted]_vars

\* with max_sessions = 1 a create was refused because the one record exists
C2_Witness ==
    /\ max_sessions = 1
    /\ result.op = "create" /\ result.error = "limit"
    /\ Len(sessions) = 1

\* C3: a create_session call that returns a failure leaves the session
\* table and active_session_id as they were
C3_FailedCreateChangesNothing ==
    [][(result'.op = "create" /\ ~result'.success) =>
          (sessions' = sessions /\ active_session_id' = active_session_id)]_vars

\* state construction failed on a generated id while the table held a record
C3_Witness ==
    /\ result.op = "create" /\ result.error = "state"
    /\ result.request_id = None
    /\ sessions # <<>>

\* an explicit session_id of the request is the id of a record in the table
ExplicitDuplicate == result'.request_id # None /\ result'.request_id \in Keys(sessions)

\* C5 as stated: create_session with an explicit session_id that is in the
\* table always fails with the session-already-exists error and leaves the
\* existing record unmodified
C5_DuplicateAlwaysConflict ==
    [][(CreateCalled' /\ ExplicitDuplicate) =>
          (result'.error = "exists" /\ sessions' = sessions)]_vars

\* C5 amended: such a call always fails and leaves the table unmodified; the
\* error is session-already-exists unless an earlier step (capacity, plugin
\* lookup, config validation) has failed the request
C5_DuplicateAlwaysFails ==
    [][(CreateCalled' /\ ExplicitDuplicate) =>
          /\ ~result'.success
          /\ result'.error \in {"exists", "limit", "unknown_game_type", "config"}
          /\ (result'.error = "limit") <=> (Len(sessions) >= max_sessions)
          /\ sessions' = sessions
          /\ active_session_id' = active_session_id]_vars

\* a duplicate explicit id was refused as already existing
C5_Witness ==
    /\ result.op = "create" /\ result.error = "exists"
    /\ result.request_id # None
    /\ result.request_id \in Keys(sessions)

\* C7: a successful create_session makes the new record active iff
\* auto_activate is true and there was no active session; otherwise it
\* leaves active_session_id unchanged
C7_AutoActivateIffNoActive ==
    [][(result'.op = "create" /\ result'.success) =>
          /\ (active_session_id' = result'.session_id)
                <=> (result'.auto_activate /\ active_session_id = None)
          /\ ~(result'.auto_activate /\ active_session_id = None)
                => active_session_id' = active_session_id]_vars

\* the first session of an empty manager became active
C7_Witness ==
    /\ result.op = "create" /\ result.success /\ result.auto_activate
    /\ Len(sessions) = 1
    /\ active_session_id = result.session_id

\* the number of entries of an id list that name a record of the table
Found(ids, tbl) == Cardinality({i \in 1..Len(ids) : ids[i] \in Keys(tbl)})

C10_DryRunChangesNothing ==
    [][(result'.op = "cleanup" /\ result'.dry_run) =>
          (sessions' = sessions /\ active_session_id' = active_session_id)]_vars

\* a dry run listed a record for deletion while no session was active
C10_Witness ==
    /\ result.op = "cleanup" /\ result.dry_run
    /\ result.listed # <<>>
    /\ active_session_id = None

\* every chunk of an id is made of letters, digits, '_' and '-'
IdFormatOk(id) == id # <<>> /\ \A i \in 1..Len(id) : IsIdChunk(id[i])

\* C4: after a create_session that returned success the returned session_id
\* is non-empty, made of letters, digits, '_' and '-' only, a key of the
\* table, and get_session_info on it returns success
C4_CreatedIdIsUsable ==
    (result.op = "create" /\ result.success) =>
        /\ IdFormatOk(result.session_id)
        /\ result.session_id \in Keys(sessions)
        /\ Lookup(sessions, result.session_id).session_id = result.session_id
        /\ GetSessionInfoSucceeds(sessions, active_session_id, result.session_id)

\* an explicit id given with surrounding blanks was stored
C4_Witness ==
    /\ result.op = "create" /\ result.success
    /\ result.session_id = <<"b">>
    /\ <<"b">> \in Keys(sessions)

\* C6: a create_session without session_id never fails as a duplicate and
\* never returns an id that was in the table before the call; the ids of the
\* table are pairwise distinct before and after
C6_GeneratedIdIsFresh ==
    [][/\ (CreateCalled' /\ result'.request_id = None) =>
             /\ result'.error # "exists"
             /\ result'.success => /\ result'.session_id \notin Keys(sessions)
                                   /\ Keys(sessions') = Keys(sessions) \cup {result'.session_id}
       /\ Cardinality(Keys(sessions')) = Len(sessions')]_vars

\* the generated base id and its first suffix were taken: the loop ran twice
C6_Witness ==
    /\ result.op = "create" /\ result.success /\ result.request_id = None
    /\ result.session_id = BaseId \o <<"-", "2">>
    /\ BaseId \in Keys(sessions)
    /\ BaseId \o <<"-", "1">> \in Keys(sessions)

\* C8: when delete_session removes the active record, active_session_id
\* becomes the id of a remaining record whose last_accessed is the greatest
\* among the remaining records, or null when no record remains
C8_MostRecentElected ==
    [][(/\ result'.op = "delete" /\ result'.success
        /\ active_session_id = result'.session_id) =>
          /\ sessions' = Remove(sessions, result'.session_id)
          /\ IF sessions' = <<>> THEN active_session_id' = None
             ELSE /\ active_session_id' \in Keys(sessions')
                  /\ \A i \in 1..Len(sessions') :
                        sessions'[i].last_accessed
                           <= Lookup(sessions', active_session_id').last_accessed]_vars

\* the active record was deleted and the record elected is one that a later
\* touch had made more recent than a record created before it
C8_Witness ==
    /\ result.op = "delete" /\ result.success
    /\ result.previous_active = result.session_id
    /\ Len(sessions) = 2
    /\ active_session_id = sessions[2].key
    /\ sessions[2].last_accessed > sessions[1].last_accessed
    /\ sessions[1].last_accessed > sessions[1].created_at

\* a cleanup ran in this step on criteria that were accepted
CleanupRan == result.op = "cleanup" /\ result.success

\* the record is protected by keep_tagged or exclude_game_types
Protected(s, criteria) ==
    \/ Range(s.tags) \cap Range(criteria.keep_tagged) # {}
    \/ s.game_type \in Range(criteria.exclude_game_types)

\* C11: a non-dry-run cleanup_sessions never deletes a record that holds a
\* tag of criteria.keep_tagged or whose game_type is in
\* criteria.exclude_game_types, whatever its age and idle time
C11_ProtectedNeverDeleted ==
    [][(CleanupRan' /\ ~result'.dry_run) =>
          \A i \in 1..Len(sessions) :
             Protected(sessions[i], result'.criteria) => sessions[i].key \in Keys(sessions')]_vars

\* the ids the criteria select among the records of tbl: not protected as
\* the active session, and too old, or else idle too long and not a
\* completed session kept by keep_completed
Selected(tbl, active, criteria, t) ==
    {tbl[i].key : i \in {j \in 1..Len(tbl) :
        /\ ~(criteria.keep_active /\ tbl[j].key = active)
        /\ \/ t - tbl[j].created_at > criteria.max_age_hours
           \/ /\ ~(tbl[j].is_completed /\ criteria.keep_completed)
              /\ t - tbl[j].last_accessed > criteria.max_idle_hours}}

Trimmed(raw) == {Strip(raw[i]) : i \in 1..Len(raw)} \ {<<>>}

\* the first position of a raw tag list whose trimmed entry is tag
FirstAt(raw, tag) == CHOOSE i \in 1..Len(raw) :
                        /\ Strip(raw[i]) = tag
                        /\ \A j \in 1..(i - 1) : Strip(raw[j]) # tag

NoDuplicates(tags) == \A i, j \in 1..Len(tags) : tags[i] = tags[j] => i = j

\* stored is raw trimmed, without blanks and duplicates, first occurrences
\* kept in order
IsCleaned(stored, raw) ==
    /\ Range(stored) = Trimmed(raw)
    /\ NoDuplicates(stored)
    /\ \A i, j \in 1..Len(stored) :
          i < j => FirstAt(raw, stored[i]) < FirstAt(raw, stored[j])

\* C13: update_session_tags(id, tags) replaces the stored tag list by the
\* trimmed input without empty entries and duplicates, first occurrences in
\* order, and leaves the other records alone; for an unknown id it fails
\* and changes nothing
C13_UpdateTagsReplaces ==
    [][result'.op = "update_tags" =>
          IF result'.success
          THEN /\ result'.session_id \in Keys(sessions)
               /\ Keys(sessions') = Keys(sessions)
               /\ IsCleaned(Lookup(sessions', result'.session_id).tags, result'.tags)
               /\ \A i \in 1..Len(sessions) :
                     sessions[i].key # result'.session_id => sessions'[i] = sessions[i]
          ELSE sessions' = sessions /\ active_session_id' = active_session_id]_vars

\* ['x','y','x'] was given for a session and ['x','y'] is stored
C13_Witness ==
    /\ result.op = "update_tags" /\ result.success
    /\ result.tags = <<<<"x">>, <<"y">>, <<"x">>>>
    /\ Lookup(sessions, result.session_id).tags = <<<<"x">>, <<"y">>>>

\* C14: in every reachable state every session's tag list has no duplicate
\* entry and no empty or whitespace-only entry
C14_TagListsClean ==
    \A i \in 1..Len(sessions) :
       /\ NoDuplicates(sessions[i].tags)
       /\ \A k \in 1..Len(sessions[i].tags) :
             sessions[i].tags[k] # <<>> /\ Strip(sessions[i].tags[k]) # <<>>

\* bulk_tag_sessions was given blank and untrimmed tags for a session that
\* held a tag, and the session now holds two
C14_Witness ==
    /\ result.op = "bulk_tag" /\ result.successful >= 1
    /\ <<" ">> \in Range(result.tags)
    /\ \E i \in 1..Len(sessions) :
          sessions[i].key \in Range(result.ids) /\ Len(sessions[i].tags) = 2

\* the tag lists of a table, by id
TagsOf(tbl) == {<<tbl[i].key, tbl[i].tags>> : i \in 1..Len(tbl)}

Listed == result.op = "list" /\ result.success

\* a threshold of the filter is provided and the value exceeds it
Exceeds(value, threshold) == threshold.given /\ value > threshold.hours

\* the record passes the filter fields other than include_completed
PassesOtherFields(s, f, t) ==
    /\ f.game_type # None => s.game_type = f.game_type
    /\ f.tags # <<>> => Range(s.tags) \cap Range(f.tags) # {}
    /\ ~Exceeds(t - s.created_at, f.max_age_hours)
    /\ ~Exceeds(t - s.last_accessed, f.max_idle_hours)

\* C16: list_sessions with include_completed = false returns no completed
\* record, and returns every record that is not completed and passes the
\* other filter fields
C16_CompletedExcluded ==
    [][(Listed' /\ ~result'.filter.include_completed) =>
          \A i \in 1..Len(sessions) :
             /\ sessions[i].is_completed => sessions[i].key \notin Range(result'.listed)
             /\ (~sessions[i].is_completed /\ PassesOtherFields(sessions[i], result'.filter, now))
                   => sessions[i].key \in Range(result'.listed)]_vars

\* a listing without completed games left a completed session out and
\* returned the other one
C16_Witness ==
    /\ Listed /\ ~result.filter.include_completed
    /\ Len(sessions) = 2 /\ Len(result.listed) = 1
    /\ \E i \in 1..2 : sessions[i].is_completed /\ sessions[i].key \notin Range(result.listed)

\* only filter.tags is set
OnlyTags(f) ==
    /\ f.tags # <<>> /\ f.game_type = None /\ f.include_completed
    /\ ~f.max_age_hours.given /\ ~f.max_idle_hours.given

\* C17: list_sessions with a non-empty filter.tags and no other filter field
\* returns exactly the records that hold at least one of the tags
C17_TagsFilterIsOr ==
    [][(Listed' /\ OnlyTags(result'.filter)) =>
          /\ Range(result'.listed) =
                {sessions[i].key : i \in {j \in 1..Len(sessions) :
                    Range(sessions[j].tags) \cap Range(result'.filter.tags) # {}}}
          /\ Len(result'.listed) = Cardinality(Range(result'.listed))]_vars

\* tags = [x, y] returned a session holding only x and one holding only y
C17_Witness ==
    /\ Listed /\ OnlyTags(result.filter) /\ Len(result.filter.tags) = 2
    /\ Len(result.listed) = 2
    /\ \E i, j \in 1..Len(sessions) :
          sessions[i].tags = <<<<"x">>>> /\ sessions[j].tags = <<<<"y">>>>

\* C18: the records list_sessions returns are ordered by last_accessed,
\* descending: each entry was accessed no earlier than the one after it
C18_ListedMostRecentFirst ==
    [][Listed' =>
          /\ Range(result'.listed) \subseteq Keys(sessions)
          /\ \A i \in 1..(Len(result'.listed) - 1) :
                Lookup(sessions, result'.listed[i]).last_accessed
                   >= Lookup(sessions, result'.listed[i + 1]).last_accessed]_vars

\* the session created second was touched later and is listed first
C18_Witness ==
    /\ Listed /\ Len(result.listed) = 2 /\ Len(sessions) = 2
    /\ result.listed[1] = sessions[2].key
    /\ sessions[2].last_accessed > sessions[1].last_accessed
    /\ sessions[2].last_accessed > sessions[2].created_at

\* C19: when the filter provides max_age_hours (max_idle_hours), 0 included,
\* every record list_sessions returns has age <= max_age_hours (idle <=
\* max_idle_hours)
C19_ThresholdsBoundListing ==
    [][Listed' =>
          \A i \in 1..Len(result'.listed) :
             LET s == Lookup(sessions, result'.listed[i]) IN
             /\ ~Exceeds(now - s.created_at, result'.filter.max_age_hours)
             /\ ~Exceeds(now - s.last_accessed, result'.filter.max_idle_hours)]_vars

\* C20: get_session(id) returns the record and sets its last_accessed to the
\* current time when id is in the table; without id it does so for the
\* active session; for an unknown id, or without id and without active
\* session, it returns not-found and changes no record
C20_GetSessionTouchesOrMisses ==
    [][result'.op = "get" =>
          LET target == IF result'.request_id = None THEN active_session_id
                        ELSE result'.request_id IN
          /\ active_session_id' = active_session_id
          /\ IF target # None /\ target \in Keys(sessions)
             THEN /\ result'.success /\ result'.session_id = target
                  /\ Len(sessions') = Len(sessions)
                  /\ \A i \in 1..Len(sessions) :
                        sessions'[i] = IF sessions[i].key = target
                                       THEN [sessions[i] EXCEPT !.last_accessed = now]
                                       ELSE sessions[i]
             ELSE ~result'.success /\ sessions' = sessions]_vars

\* get_session() without id returned the active session, which it touched
\* later than the session was created
C20_Witness ==
    /\ result.op = "get" /\ result.success /\ result.request_id = None
    /\ result.session_id = active_session_id
    /\ Lookup(sessions, active_session_id).last_accessed = now
    /\ Lookup(sessions, active_session_id).created_at < now

\* C21: for every session record, last_accessed is never earlier than
\* created_at and never decreases while the record is in the table
C21_LastAccessedMonotonic ==
    [][/\ \A i \in 1..Len(sessions') : sessions'[i].last_accessed >= sessions'[i].created_at
       /\ \A i \in 1..Len(sessions), j \in 1..Len(sessions') :
             sessions[i].key = sessions'[j].key =>
                /\ sessions'[j].last_accessed >= sessions[i].last_accessed
                /\ sessions'[j].created_at = sessions[i].created_at]_vars

\* a record created at hour 0 and touched at hour 1 was touched again, by a
\* tag update, at hour 2
C21_Witness ==
    /\ result.op = "update_tags" /\ result.success /\ now = 2
    /\ Lookup(sessions, result.session_id).created_at = 0
    /\ Lookup(sessions, result.session_id).last_accessed = 2

\* C22: set_active_session(id) fails and changes neither active_session_id
\* nor any record when id is not in the table; otherwise active_session_id
\* becomes id, the target's last_accessed becomes the current time, no other
\* record changes and the result reports the previous active id
C22_SetActiveSwapsAndTouches ==
    [][result'.op = "activate" =>
          IF result'.request_id \in Keys(sessions)
          THEN /\ result'.success
               /\ active_session_id' = result'.request_id
               /\ result'.previous_active = active_session_id
               /\ Len(sessions') = Len(sessions)
               /\ \A i \in 1..Len(sessions) :
                     sessions'[i] = IF sessions[i].key = result'.request_id
                                    THEN [sessions[i] EXCEPT !.last_accessed = now]
                                    ELSE sessions[i]
          ELSE /\ ~result'.success
               /\ sessions' = sessions
               /\ active_session_id' = active_session_id]_vars

\* the active pointer was swapped from one session to another, which was
\* touched later than it was created
C22_Witness ==
    /\ result.op = "activate" /\ result.success
    /\ result.previous_active # None
    /\ result.previous_active # active_session_id
    /\ result.previous_active \in Keys(sessions)
    /\ Lookup(sessions, active_session_id).last_accessed = now
    /\ Lookup(sessions, active_session_id).created_at < now

\* C23: when the event sink raises, the operation that emitted the event
\* returns the result it would return had the sink completed, its failure
\* never reaches the caller, and neither the sink invocation nor the
\* resumption changes the table or the active pointer
C23_SinkFailureIsInvisible ==
    [][\A c \in 1..MaxCalls :
          /\ calls[c].pc = "awaiting" /\ calls'[c].pc = "resumable" =>
                /\ sessions' = sessions
                /\ active_session_id' = active_session_id
          /\ calls[c].pc = "resumable" /\ calls'[c].pc = "returned" =>
                /\ sessions' = sessions
                /\ active_session_id' = active_session_id
                /\ calls'[c].returned.result = calls[c].res
                /\ calls'[c].returned.is_active =
                      (/\ calls[c].res.op = "create" /\ calls[c].res.success
                       /\ calls[c].res.session_id = active_session_id)
                /\ calls'[c].returned.remaining_sessions =
                      (IF calls[c].res.op = "delete" /\ calls[c].res.success
                       THEN Len(sessions) ELSE 0)]_vars

\* a create and a delete both returned success although their sinks raised
C23_Witness ==
    \E c, d \in 1..MaxCalls :
       /\ calls[c].pc = "returned" /\ calls[c].sink = "raises"
       /\ calls[c].returned.result.op = "create" /\ calls[c].returned.result.success
       /\ calls[d].pc = "returned" /\ calls[d].sink = "raises"
       /\ calls[d].returned.result.op = "delete" /\ calls[d].returned.result.success

\* C24: an operation that emitted an event eventually returns its result,
\* whether or not the sink invocation ever completes
C24_EmittingCallReturns ==
    \A c \in 1..MaxCalls : (calls[c].pc = "awaiting") ~> (calls[c].pc = "returned")

\* id was reported deleted by the call whose result is res
ReportsDeleted(res, id) ==
    /\ res.success
    /\ \/ res.op = "delete" /\ res.session_id = id
       \/ res.op = "bulk_delete" /\ \E k \in 1..Len(res.ids) : res.ids[k] = id /\ res.items[k]
       \/ res.op = "cleanup" /\ ~res.dry_run /\ id \in Range(res.listed)

ReportsCreated(res, id) == res.op = "create" /\ res.success /\ res.session_id = id

\* the step is the uninterrupted part of a new call
CallBegins == \E c \in 1..MaxCalls : calls[c].pc = "idle" /\ calls'[c].pc # "idle"

StaleCount ==
    Cardinality({i \in 1..Len(sessions) :
                    /\ now - sessions[i].created_at > 1440
                    /\ now - sessions[i].last_accessed >= 60})

\* C27: get_health_status reports critical when utilization (total /
\* max_sessions * 100) is above 95, warning when it is above 80 or more
\* than 10 sessions are stale, healthy otherwise
C27_HealthStatusByUtilization ==
    result.op = "health" =>
       result.status = IF 100 * Len(sessions) > 95 * max_sessions THEN "critical"
                       ELSE IF 100 * Len(sessions) > 80 * max_sessions \/ StaleCount > 10
                       THEN "warning"
                       ELSE "healthy"

\* the records a statistics call must count under each status, in minutes
CountedAs(st) ==
    {i \in 1..Len(sessions) :
        LET age == now - sessions[i].created_at
            idle == now - sessions[i].last_accessed
            stale == age > 1440 /\ idle >= 60 IN
        CASE st = "completed" -> sessions[i].is_completed
          [] st = "stale" -> ~sessions[i].is_completed /\ stale
          [] st = "idle" -> ~sessions[i].is_completed /\ ~stale /\ idle > 120
          [] OTHER -> ~sessions[i].is_completed /\ ~stale /\ ~(idle > 120)}

\* a single session that is not completed and was never touched, aged age
OnlyUntouchedAged(age) ==
    /\ Len(sessions) = 1
    /\ ~sessions[1].is_completed
    /\ sessions[1].last_accessed = sessions[1].created_at
    /\ now - sessions[1].created_at = age

\* C28: statistics count every record under exactly one status, by the
\* priority completed, stale, idle (idle above 2 hours), active; a session
\* never touched and not completed is active 90 minutes after its creation,
\* idle after 150 minutes and stale after 25 hours
C28_OneStatusByPriority ==
    result.op = "stats" =>
       /\ \A st \in {"completed", "stale", "idle", "active"} :
             result.sessions_by_status[st] = Cardinality(CountedAs(st))
       /\ result.sessions_by_status["completed"] + result.sessions_by_status["stale"]
             + result.sessions_by_status["idle"] + result.sessions_by_status["active"]
             = Len(sessions)
       /\ OnlyUntouchedAged(90) => result.sessions_by_status["active"] = 1
       /\ OnlyUntouchedAged(150) => result.sessions_by_status["idle"] = 1
       /\ OnlyUntouchedAged(1500) => result.sessions_by_status["stale"] = 1

\* 25 hours after its creation a session never touched is counted stale,
\* next to a session that was completed
C28_Witness ==
    /\ result.op = "stats" /\ now = 1500
    /\ result.sessions_by_status["stale"] = 1
    /\ result.sessions_by_status["completed"] = 1
    /\ \E i \in 1..Len(sessions) :
          /\ ~sessions[i].is_completed
          /\ sessions[i].created_at = 0 /\ sessions[i].last_accessed = 0

\* the code create_session must give each of its failures
ExpectedErrorCode(error) ==
    CASE error = "limit" -> "SESSION_LIMIT_REACHED"
      [] error = "unknown_game_type" -> "UNKNOWN_GAME_TYPE"
      [] error = "config" -> "CONFIG_VALIDATION_FAILED"
      [] error = "exists" -> "SESSION_ALREADY_EXISTS"
      [] error = "state" -> "STATE_CREATION_FAILED"
      [] OTHER -> "None"

\* C29: a failure of create_session carries the machine-readable code of
\* the step that failed: SESSION_LIMIT_REACHED, UNKNOWN_GAME_TYPE,
\* CONFIG_VALIDATION_FAILED, SESSION_ALREADY_EXISTS or STATE_CREATION_FAILED
C29_CreateFailureCarriesCode ==
    /\ result.op = "create" /\ ~result.success
    /\ result.error \in {"limit", "unknown_game_type", "config", "exists", "state"}
    => result.error_code = ExpectedErrorCode(result.error)

\* C30: no CleanupCriteria is constructed with max_idle_hours above
\* max_age_hours: a cleanup either fails for its criteria or runs with
\* max_idle_hours <= max_age_hours
C30_IdleNeverExceedsAge ==
    result.op = "cleanup" /\ result.success =>
       result.criteria.max_idle_hours <= result.criteria.max_age_hours

\* C31: the new active id in the result of a successful delete_session is
\* the manager's active_session_id right after the deletion, whether or not
\* the deleted record was the active one
C31_DeleteReportsActive ==
    result.op = "delete" /\ result.success => result.new_active = active_session_id

\* the last operation changed the table, the tags or the active pointer
SuccessfulMutation ==
    /\ result.success
    /\ \/ result.op \in {"create", "delete", "activate", "update_tags"}
       \/ result.op \in {"bulk_delete", "bulk_tag"} /\ result.successful > 0
       \/ result.op = "cleanup" /\ ~result.dry_run /\ result.deleted > 0

\* C32: with a sink installed and emission enabled, every successful
\* mutating operation (create, delete, activate, bulk delete, bulk tag, tag
\* update, a cleanup that deletes a record) invokes the sink at least once
C32_MutationsReachSink ==
    SuccessfulMutation => emitted # <<>>

\* C33: a create_session request with emit_events = false causes no
\* invocation of the event sink: create_session invokes the sink only when
\* the request's emit_events is true
C33_NoEventsWhenDisabled ==
    /\ result.op = "create" /\ result.error # "request_rejected"
    /\ ~result.emit_events
    => emitted = <<>>

\* C34: list_sessions with a filter whose is_active_session is true returns
\* only the active session: at most one record, and its id is
\* active_session_id
C34_ActiveOnlyListsActive ==
    /\ result.op = "list" /\ result.success
    /\ result.filter.is_active_session = "True"
    => /\ Len(result.listed) <= 1
       /\ \A i \in 1..Len(result.listed) : result.listed[i] = active_session_id

\* C35: a cleanup that is not a dry run changes active_session_id only when
\* the record that was active before the call is deleted by it; when that
\* record survives, or when no session was active, active_session_id is
\* left as it was
C35_CleanupKeepsActive ==
    [][/\ result'.op = "cleanup" /\ result'.success /\ ~result'.dry_run
       /\ active_session_id \notin (Keys(sessions) \ Keys(sessions'))
       => active_session_id' = active_session_id]_vars

\* delete_session called on each id of session_ids in order: the table, the
\* active pointer and the success of each call
RECURSIVE DeleteEach(_, _, _, _)
DeleteEach(session_ids, tbl, active, items) ==
    IF session_ids = <<>> THEN [tbl |-> tbl, active |-> active, items |-> items]
    ELSE LET out == DeleteOutcome(tbl, active, Head(session_ids)) IN
         DeleteEach(Tail(session_ids), out.tbl, out.active, Append(items, out.success))

C37_TableWithinConfiguredLimit ==
    Len(sessions) <= max_sessions

\* the failure a create_session request must report in this state: that of
\* the first step it violates, in the order capacity, plugin lookup, config
\* validation, duplicate id, state construction; "" when it violates none
FirstViolation(game_type, config, request_id) ==
    IF Len(sessions) >= max_sessions THEN "limit"
    ELSE IF game_type \notin RegisteredTypes THEN "unknown_game_type"
    ELSE IF config = "invalid" THEN "config"
    ELSE IF request_id # None /\ request_id \in Keys(sessions) THEN "exists"
    ELSE IF config = "state_raises" THEN "state"
    ELSE ""

\* C38: a create_session request that violates several checks reports the
\* failure of the earliest step in the order capacity, plugin lookup,
\* config validation, duplicate id, state construction
C38_EarliestFailureReported ==
    [][result'.op = "create" /\ result'.error # "request_rejected" =>
          LET first == FirstViolation(result'.game_type, result'.config,
                                      result'.request_id) IN
          IF first = "" THEN result'.success
          ELSE ~result'.success /\ result'.error = first]_vars

\* a request with an unknown game type and the id of an existing session,
\* made while the table is full, was turned away for the capacity
C38_Witness ==
    /\ result.op = "create" /\ result.error = "limit"
    /\ result.game_type \notin RegisteredTypes
    /\ result.request_id \in Keys(sessions)
    /\ Len(sessions) = max_sessions

\* C39: when the sink is invoked with session_created for an id, the id is
\* in the table, and active if the request asked for activation and no
\* session was active; when it is invoked with session_deleted for an id,
\* the id is out of the table and the active pointer is already re-elected:
\* it names a session of the table, or nothing when the table is empty
C39_EventsAfterCommit ==
    [][CallBegins =>
          \A i \in 1..Len(emitted') :
             LET x == emitted'[i].session_id IN
             /\ emitted'[i].event_type = "session_created" =>
                   /\ x \in Keys(sessions')
                   /\ result'.auto_activate /\ active_session_id = None
                         => active_session_id' = x
             /\ emitted'[i].event_type = "session_deleted" =>
                   /\ x \notin Keys(sessions')
                   /\ active_session_id' # x
                   /\ active_session_id' \in Keys(sessions') \cup {None}
                   /\ active_session_id = x /\ sessions' # <<>>
                         => active_session_id' \in Keys(sessions')]_vars

\* the sink is being invoked with session_deleted for the session that was
\* active: the record is gone and another session is active already
C39_Witness ==
    \E c \in 1..MaxCalls :
       /\ calls[c].pc = "awaiting" /\ calls[c].res = result
       /\ result.op = "delete" /\ result.success
       /\ emitted = <<Event("session_deleted", result.session_id)>>
       /\ result.previous_active = result.session_id
       /\ result.session_id \notin Keys(sessions)
       /\ active_session_id \in Keys(sessions)

\* C40: in every state and for every criteria, the ids a dry run lists are
\* the ids the cleanup removes when run with dry_run = false in the same
\* state at the same time, the dry run itself removes nothing, and the
\* cleanup repeated at once with the same criteria deletes nothing more
C40_DryRunPredictsCleanup ==
    [][CleanupRan' =>
          \A dry \in {CleanupOutcome(sessions, active_session_id,
                                     [result'.criteria EXCEPT !.dry_run = TRUE], now)} :
          \A real \in {CleanupOutcome(sessions, active_session_id,
                                      [result'.criteria EXCEPT !.dry_run = FALSE], now)} :
          \A again \in {CleanupOutcome(real.tbl, real.active,
                                       [result'.criteria EXCEPT !.dry_run = FALSE], now)} :
             /\ result' = IF result'.dry_run THEN dry.res ELSE real.res
             /\ sessions' = IF result'.dry_run THEN dry.tbl ELSE real.tbl
             /\ dry.tbl = sessions
             /\ Range(dry.res.listed) = Keys(sessions) \ Keys(real.tbl)
             /\ real.res.listed = dry.res.listed
             /\ real.res.deleted = Len(dry.res.listed)
             /\ again.tbl = real.tbl
             /\ again.res.deleted = 0
             /\ again.res.listed = <<>>]_vars

\* a cleanup removed two sessions at once
C40_Witness ==
    /\ CleanupRan /\ ~result.dry_run
    /\ result.deleted = 2 /\ Len(result.listed) = 2
    /\ sessions = <<>>

====
